---- MODULE Spec2Model ----
(***************************************************************************)
(* Model of the leveled Logger of src/src/logger.js: level resolution      *)
(* (getLevelNumber), the module-initialisation default level, Logger       *)
(* construction, the accessors, the level methods (log) and print/eprint.  *)
(*                                                                         *)
(* JavaScript strings that the code inspects (level values, environment    *)
(* strings) are tuples of one-character strings, so that toLowerCase, the  *)
(* `in` operator's property keys and the numeric coercions are computed    *)
(* and not assumed.  Text written to a stream is a tuple of tokens.        *)
(***************************************************************************)
EXTENDS Integers, Sequences, FiniteSets, TLC

VARIABLES env, Defaults_logLevel, phase, opts, chalk_level, last

vars == <<env, Defaults_logLevel, phase, opts, chalk_level, last>>

(***************************************************************************)
(* JavaScript values that reach getLevelNumber and the threshold gate.     *)
(*   num     : the integer n                                               *)
(*   frac    : the non-integer n + 0.5                                     *)
(*   negzero : -0                                                          *)
(*   nan     : NaN                                                         *)
(*   str     : the string s                                                *)
(*   undef   : undefined (an unset environment variable)                   *)
(*   obj     : an object inherited from a prototype, named by s            *)
(***************************************************************************)
Num(i) == [k |-> "num", n |-> i, s |-> <<>>]

Frac(i) == [k |-> "frac", n |-> i, s |-> <<>>]

NegZero == [k |-> "negzero", n |-> 0, s |-> <<>>]

NaN == [k |-> "nan", n |-> 0, s |-> <<>>]

Str(t) == [k |-> "str", n |-> 0, s |-> t]

Undefined == [k |-> "undef", n |-> 0, s |-> <<>>]

Obj(t) == [k |-> "obj", n |-> 0, s |-> t]

(* String literals of the source and of the inputs, as character tuples. *)
S_error == <<"e", "r", "r", "o", "r">>

S_warn == <<"w", "a", "r", "n">>

S_info == <<"i", "n", "f", "o">>

S_log == <<"l", "o", "g">>

S_debug == <<"d", "e", "b", "u", "g">>

UpperChars == <<"A", "B", "C", "D", "E", "F", "G", "H", "I", "J", "K", "L", "M", "N", "O", "P", "Q", "R", "S", "T", "U", "V", "W", "X", "Y", "Z">>

LowerChars == <<"a", "b", "c", "d", "e", "f", "g", "h", "i", "j", "k", "l", "m", "n", "o", "p", "q", "r", "s", "t", "u", "v", "w", "x", "y", "z">>

DigitChars == <<"0", "1", "2", "3", "4", "5", "6", "7", "8", "9">>

(* Properties every plain object inherits from Object.prototype. *)
ObjectPrototypeKeys ==
    { <<"c", "o", "n", "s", "t", "r", "u", "c", "t", "o", "r">>,
      <<"_", "_", "p", "r", "o", "t", "o", "_", "_">>,
      <<"h", "a", "s", "O", "w", "n", "P", "r", "o", "p", "e", "r", "t", "y">>,
      <<"i", "s", "P", "r", "o", "t", "o", "t", "y", "p", "e", "O", "f">>,
      <<"p", "r", "o", "p", "e", "r", "t", "y", "I", "s", "E", "n", "u", "m", "e", "r", "a", "b", "l", "e">>,
      <<"t", "o", "S", "t", "r", "i", "n", "g">>,
      <<"t", "o", "L", "o", "c", "a", "l", "e", "S", "t", "r", "i", "n", "g">>,
      <<"v", "a", "l", "u", "e", "O", "f">> }

(* Properties an array inherits from Array.prototype. *)
ArrayPrototypeKeys ==
    { <<"a", "t">>,
      <<"c", "o", "n", "c", "a", "t">>,
      <<"e", "n", "t", "r", "i", "e", "s">>,
      <<"e", "v", "e", "r", "y">>,
      <<"f", "i", "l", "l">>,
      <<"f", "i", "l", "t", "e", "r">>,
      <<"f", "i", "n", "d">>,
      <<"f", "l", "a", "t">>,
      <<"i", "n", "c", "l", "u", "d", "e", "s">>,
      <<"j", "o", "i", "n">>,
      <<"k", "e", "y", "s">>,
      <<"m", "a", "p">>,
      <<"p", "o", "p">>,
      <<"p", "u", "s", "h">>,
      <<"r", "e", "d", "u", "c", "e">>,
      <<"r", "e", "v", "e", "r", "s", "e">>,
      <<"s", "h", "i", "f", "t">>,
      <<"s", "l", "i", "c", "e">>,
      <<"s", "o", "m", "e">>,
      <<"s", "o", "r", "t">>,
      <<"s", "p", "l", "i", "c", "e">>,
      <<"u", "n", "s", "h", "i", "f", "t">>,
      <<"v", "a", "l", "u", "e", "s">>,
      <<"f", "o", "r", "E", "a", "c", "h">>,
      <<"i", "n", "d", "e", "x", "O", "f">> }

S_length == <<"l", "e", "n", "g", "t", "h">>

(***************************************************************************)
(* String.prototype.toLowerCase (line 306).                                *)
(***************************************************************************)
LowerChar(c) ==
    IF \E i \in DOMAIN UpperChars : UpperChars[i] = c
    THEN LowerChars[CHOOSE i \in DOMAIN UpperChars : UpperChars[i] = c]
    ELSE c

(* toLowerCase left out: level names compared as given *)
toLowerCase_Identity(t) == t

toLowerCase(t) == [i \in DOMAIN t |-> LowerChar(t[i])]

IsDigit(c) == \E i \in DOMAIN DigitChars : DigitChars[i] = c

DigitVal(c) == (CHOOSE i \in DOMAIN DigitChars : DigitChars[i] = c) - 1

RECURSIVE DigitsVal(_)
DigitsVal(t) ==
    IF t = <<>> THEN 0
    ELSE 10 * DigitsVal(SubSeq(t, 1, Len(t) - 1)) + DigitVal(t[Len(t)])

AllDigits(t) == t # <<>> /\ \A i \in DOMAIN t : IsDigit(t[i])

(***************************************************************************)
(* ToNumber of a string, as the unary plus of line 312 and the comparison  *)
(* of line 314 apply it: the empty string is 0, an optionally signed       *)
(* decimal integer is its value, every other string of the inputs is NaN.  *)
(***************************************************************************)
StringToNumber(t) ==
    IF t = <<>> THEN Num(0)
    ELSE IF AllDigits(t) THEN Num(DigitsVal(t))
    ELSE IF t[1] = "+" /\ AllDigits(Tail(t)) THEN Num(DigitsVal(Tail(t)))
    ELSE IF t[1] = "-" /\ AllDigits(Tail(t))
         THEN IF DigitsVal(Tail(t)) = 0 THEN NegZero ELSE Num(0 - DigitsVal(Tail(t)))
    ELSE NaN

ToNumber(v) ==
    CASE v.k = "str" -> StringToNumber(v.s)
      [] v.k \in {"undef", "obj"} -> NaN
      [] OTHER -> v

RECURSIVE NatToChars(_)
NatToChars(i) ==
    IF i < 10 THEN <<DigitChars[i + 1]>>
    ELSE NatToChars(i \div 10) \o <<DigitChars[(i % 10) + 1]>>

(***************************************************************************)
(* ToPropertyKey: the string under which the `in` operator of lines 308    *)
(* and 311 looks its left operand up.                                      *)
(***************************************************************************)
ToPropertyKey(v) ==
    CASE v.k = "str" -> v.s
      [] v.k = "num" -> IF v.n < 0 THEN <<"-">> \o NatToChars(0 - v.n) ELSE NatToChars(v.n)
      [] v.k = "frac" -> IF v.n < 0 THEN <<"-">> \o NatToChars(0 - v.n - 1) \o <<".", "5">>
                         ELSE NatToChars(v.n) \o <<".", "5">>
      [] v.k = "negzero" -> <<"0">>
      [] v.k = "nan" -> <<"N", "a", "N">>
      [] v.k = "undef" -> <<"u", "n", "d", "e", "f", "i", "n", "e", "d">>
      [] OTHER -> <<"[", "o", "b", "j", "e", "c", "t", "]">>

(* value < 0 of line 314: false whenever the operand converts to NaN. *)
LessThanZero(v) ==
    LET x == ToNumber(v)
    IN  x.k \in {"num", "frac"} /\ x.n < 0

(***************************************************************************)
(* LevelNums (lines 38-44) and LevelNames (lines 46-48): the names sorted   *)
(* by ordinal; JavaScript index i is position i + 1 here.                  *)
(***************************************************************************)
LevelNums ==
    (S_error :> 0) @@ (S_warn :> 1) @@ (S_info :> 2) @@ (S_log :> 3) @@ (S_debug :> 4)

LevelNames ==
    [i \in 1..Cardinality(DOMAIN LevelNums) |->
        CHOOSE nm \in DOMAIN LevelNums :
            Cardinality({o \in DOMAIN LevelNums : LevelNums[o] < LevelNums[nm]}) = i - 1]

(* key in LevelNums: an own property or one inherited from Object.prototype. *)
InLevelNums(key) == key \in DOMAIN LevelNums \/ key \in ObjectPrototypeKeys

(* key in LevelNames: an index, length, or an inherited property. *)
InLevelNames(key) ==
    \/ \E i \in DOMAIN LevelNames : key = NatToChars(i - 1)
    \/ key = S_length
    \/ key \in ArrayPrototypeKeys
    \/ key \in ObjectPrototypeKeys

(***************************************************************************)
(* getLevelNumber (lines 304-318).  dflt is Defaults.logLevel at the time  *)
(* of the call.                                                            *)
(***************************************************************************)
getLevelNumber(value, dflt) ==
    LET v == IF value.k = "str" THEN Str(toLowerCase(value.s)) ELSE value
        key == ToPropertyKey(v)
    IN  IF InLevelNums(key)
        THEN IF key \in DOMAIN LevelNums THEN Num(LevelNums[key]) ELSE Obj(key)
        ELSE IF InLevelNames(key) THEN ToNumber(v)
        ELSE IF LessThanZero(v) THEN Num(-1)
        ELSE dflt

(***************************************************************************)
(* Module initialisation of Defaults.logLevel (lines 60-69).  e is the     *)
(* environment: each variable is Undefined or a string; the empty string   *)
(* is falsy.  Line 69 resolves the raw value while Defaults.logLevel still *)
(* holds that raw value.                                                   *)
(***************************************************************************)
Truthy(v) == v.k = "str" /\ v.s # <<>>

RawDefaultLevel(e) ==
    IF Truthy(e.DEBUG) THEN Str(S_debug)
    ELSE IF Truthy(e.LOG_LEVEL) THEN e.LOG_LEVEL
    ELSE IF Truthy(e.LOGLEVEL) THEN e.LOGLEVEL
    ELSE Str(S_info)

InitDefaultLevel(e) == getLevelNumber(RawDefaultLevel(e), RawDefaultLevel(e))

(***************************************************************************)
(* The threshold gate's comparison, level > this.logLevel (line 189):      *)
(* both operands are converted to numbers, and a NaN makes it false.       *)
(***************************************************************************)
Twice(x) == IF x.k = "frac" THEN 2 * x.n + 1 ELSE IF x.k = "num" THEN 2 * x.n ELSE 0

(* the gate with >= for >: the threshold's own level is rejected *)
GreaterThan_OrEqual(a, b) ==
    LET x == ToNumber(a)
        y == ToNumber(b)
    IN  x.k # "nan" /\ y.k # "nan" /\ Twice(x) >= Twice(y)

GreaterThan(a, b) ==
    LET x == ToNumber(a)
        y == ToNumber(b)
    IN  x.k # "nan" /\ y.k # "nan" /\ Twice(x) > Twice(y)

(***************************************************************************)
(* Stream values.  "out" and "err" are process.stdout and process.stderr   *)
(* (lines 52-53); "duck" is an object with a write method that is not a    *)
(* stream; "nul" is a value with no write method (null, a number, {}).     *)
(***************************************************************************)
IsWriteableStream(st) == st \in {"out", "err"}

HasWrite(st) == st \in {"out", "err", "duck"}

Defaults_stdout == "out"

Defaults_stderr == "err"

(* Defaults.colors (line 76): the colour level chalk detected, not zero here. *)
DefaultColor == 1

(***************************************************************************)
(* Arguments of a level method or of print.                                *)
(***************************************************************************)
EmptyString == [kind |-> "string", txt |-> <<>>]

SomeString == [kind |-> "string", txt |-> <<"s">>]

AnError == [kind |-> "error", txt |-> <<>>]

ThrowingTrue == [kind |-> "throwing", txt |-> <<"true">>]

ThrowingFalse == [kind |-> "throwing", txt |-> <<"false">>]

(* an Error that has itself a property throwing = true *)
ThrowingError == [kind |-> "error", txt |-> <<"true">>]

(* arg && arg.throwing of line 149 *)
CarriesThrowing(arg) == arg.kind \in {"throwing", "error"} /\ arg.txt = <<"true">>

(* A compiled style function of this.chalks applied to a text; chalk leaves
   the empty string empty. *)
Style(slot, txt) == IF txt = <<>> THEN <<>> ELSE <<slot \o "(">> \o txt \o <<")">>

(***************************************************************************)
(* Logger.formatError (lines 289-301).                                     *)
(***************************************************************************)
formatError(err, isSkipStack) ==
    LET first == Style("name", <<"Error">>) \o <<": ">> \o Style("message", <<"boom">>)
        lines == IF isSkipStack THEN <<first>> ELSE <<first, Style("stack", <<"at">>)>>
    IN  IF Len(lines) = 1 THEN lines[1] ELSE lines[1] \o <<"\n">> \o lines[2]

(***************************************************************************)
(* Defaults.prelog (lines 140-166): map over the arguments, hasError being *)
(* set by the errors already mapped; null results are filtered out.        *)
(***************************************************************************)
(* the stack suppressed only by a marker placed before the error *)
PrelogMap_EarlierOnly(args, i) ==
    LET arg == args[i]
        hasError == \E j \in 1..(i - 1) : args[j].kind = "error"
    IN  CASE arg.kind = "string" -> <<[kind |-> "string", txt |-> Style("string", arg.txt)]>>
          [] arg.kind = "error" ->
                <<[kind |-> "string",
                   txt |-> formatError(arg, \E j \in 1..(i - 1) : CarriesThrowing(args[j]))]>>
          [] arg.kind = "throwing" -> IF hasError THEN <<>> ELSE <<arg>>
          [] OTHER -> <<arg>>

PrelogMap(args, i) ==
    LET arg == args[i]
        hasError == \E j \in 1..(i - 1) : args[j].kind = "error"
    IN  CASE arg.kind = "string" -> <<[kind |-> "string", txt |-> Style("string", arg.txt)]>>
          [] arg.kind = "error" ->
                <<[kind |-> "string",
                   txt |-> formatError(arg, \E j \in DOMAIN args : CarriesThrowing(args[j]))]>>
          [] arg.kind = "throwing" -> IF hasError THEN <<>> ELSE <<arg>>
          [] OTHER -> <<arg>>

RECURSIVE PrelogFrom(_, _)
PrelogFrom(args, i) ==
    IF i > Len(args) THEN <<>> ELSE PrelogMap(args, i) \o PrelogFrom(args, i + 1)

Defaults_prelog(level, args) == PrelogFrom(args, 1)

(***************************************************************************)
(* Defaults.format (lines 175-178): util.formatWithOptions joins the       *)
(* arguments with single spaces, a string as it is and any other value as  *)
(* util.inspect shows it.                                                  *)
(***************************************************************************)
Inspect(arg) ==
    CASE arg.kind = "string" -> arg.txt
      [] arg.kind = "error" -> <<"Error: boom", "\n", "at">>
      [] arg.kind = "throwing" -> <<"{ throwing: ">> \o arg.txt \o <<" }">>

RECURSIVE Defaults_format(_)
Defaults_format(args) ==
    IF args = <<>> THEN <<>>
    ELSE IF Len(args) = 1 THEN Inspect(args[1])
    ELSE Inspect(args[1]) \o <<" ">> \o Defaults_format(Tail(args))

(***************************************************************************)
(* Defaults.prefix (lines 119-129) and the configured prefix provider as   *)
(* line 204 resolves it: "default" is the function, "list_empty" the fixed *)
(* value [], "str_empty" the fixed value ''.                               *)
(***************************************************************************)
toUpperCase(t) ==
    [i \in DOMAIN t |->
        IF \E j \in DOMAIN LowerChars : LowerChars[j] = t[i]
        THEN UpperChars[CHOOSE j \in DOMAIN LowerChars : LowerChars[j] = t[i]]
        ELSE t[i]]

Defaults_prefix(level) ==
    IF level = S_info
    THEN [kind |-> "string", txt |-> Style("prefix", <<"Caret">>)]
    ELSE [kind |-> "string",
          txt |-> Style("brace", <<"[">>) \o Style("prefix", toUpperCase(level))
                  \o Style("brace", <<"]">>)]

Prefixes(provider, level) ==
    CASE provider = "default" -> <<Defaults_prefix(level)>>
      [] provider = "list_empty" -> <<>>
      [] provider = "str_empty" -> <<EmptyString>>

(***************************************************************************)
(* Logger.write / Logger.ewrite (lines 245-251) applied to a list of data  *)
(* in order: each is one call of the configured stream's write; a value    *)
(* with no write method makes the first call raise a TypeError.            *)
(***************************************************************************)
SlotOf(method) == IF method = "ewrite" THEN "stderr" ELSE "stdout"

StreamOf(o, method) == IF SlotOf(method) = "stderr" THEN o.stderr ELSE o.stdout

WriteAll(o, method, datas) ==
    IF datas = <<>> THEN [writes |-> <<>>, raised |-> <<>>]
    ELSE IF HasWrite(StreamOf(o, method))
    THEN [writes |-> [i \in DOMAIN datas |->
                         [slot |-> SlotOf(method), to |-> StreamOf(o, method),
                          data |-> datas[i]]],
          raised |-> <<>>]
    ELSE [writes |-> <<>>, raised |-> <<"TypeError">>]

(* the destination with level < 1 for level < 2: warn goes to stdout *)
MethodOf_ErrorOnly(level) == IF level.n < 1 THEN "ewrite" ELSE "write"

(* line 192 *)
MethodOf(level) == IF level.n < 2 THEN "ewrite" ELSE "write"

(* Logger.logLevel getter (lines 281-283) *)
logLevelGet(o, dflt) == getLevelNumber(o.logLevel, dflt)

(***************************************************************************)
(* log (lines 187-211) for the method bound to the level name `name`:      *)
(* the writes it issues, what it raises, and the callables it invokes.     *)
(***************************************************************************)
(* the separator written after every prefix, whether or not a body follows *)
LogData_AlwaysSpace(prefix, body) ==
    (IF prefix # <<>> THEN <<prefix \o <<" ">>>> ELSE <<>>) \o <<body \o <<"\n">>>>

LogData(prefix, body) ==
    (IF prefix # <<>> THEN <<prefix \o (IF body # <<>> THEN <<" ">> ELSE <<>>)>> ELSE <<>>)
    \o <<body \o <<"\n">>>>

log(o, dflt, name, args) ==
    LET level == getLevelNumber(Str(name), dflt)
    IN  IF GreaterThan(level, logLevelGet(o, dflt))
        THEN [writes |-> <<>>, raised |-> <<>>, steps |-> <<>>]
        ELSE LET method == MethodOf(level)
                 levelName == LevelNames[level.n + 1]
                 args2 == Defaults_prelog(levelName, args)
                 prefixes == Prefixes(o.prefix, levelName)
                 prefix == IF Len(prefixes) > 0 THEN Defaults_format(prefixes) ELSE <<>>
                 body == IF Len(args2) > 0 THEN Defaults_format(args2) ELSE <<>>
                 w == WriteAll(o, method, LogData(prefix, body))
             IN  [writes |-> w.writes, raised |-> w.raised,
                  steps |-> <<"prelog">>
                            \o (IF o.prefix = "default" THEN <<"prefix">> ELSE <<>>)
                            \o (IF Len(prefixes) > 0 THEN <<"format">> ELSE <<>>)
                            \o (IF Len(args2) > 0 THEN <<"format">> ELSE <<>>)]

(* print behind the threshold gate: silenced by a negative threshold *)
print_Gated(o, method, args) ==
    IF o.logLevel.k = "num" /\ o.logLevel.n < 0
    THEN [writes |-> <<>>, raised |-> <<>>, steps |-> <<>>]
    ELSE LET w == WriteAll(o, method, <<Defaults_format(args) \o <<"\n">>>>)
         IN  [writes |-> w.writes, raised |-> w.raised, steps |-> <<"format">>]

(* Logger.print / Logger.eprint (lines 253-259) *)
print(o, method, args) ==
    LET w == WriteAll(o, method, <<Defaults_format(args) \o <<"\n">>>>)
    IN  [writes |-> w.writes, raised |-> w.raised, steps |-> <<"format">>]

(***************************************************************************)
(* Bounds of the model.                                                    *)
(***************************************************************************)
MaxArgs == 2

MaxNeg == 2

MaxOver == 2

(***************************************************************************)
(* State.                                                                  *)
(*   env               : the environment read at module initialisation     *)
(*   Defaults_logLevel : Defaults.logLevel after line 69                   *)
(*   phase             : "none" before new Logger, "failed" when the last  *)
(*                       construction raised, "ready" when it returned     *)
(*   opts              : this.opts of the instance (stdout, stderr,        *)
(*                       logLevel as assigned, prefix provider)            *)
(*   chalk_level       : this.chalk.level                                  *)
(*   last              : the last operation: its name, the stream values   *)
(*                       and the level value given to it, its argument     *)
(*                       list, the stream writes it issued in order, what  *)
(*                       it raised, and the steps or callables it ran      *)
(***************************************************************************)
NoOpts == [stdout |-> "", stderr |-> "", logLevel |-> Undefined, prefix |-> ""]

Op(op, streams, value, args, writes, raised, steps) ==
    [op |-> op, streams |-> streams, value |-> value, args |-> args,
     writes |-> writes, raised |-> raised, steps |-> steps]

Init(Envs) ==
    /\ env \in Envs
    /\ Defaults_logLevel = InitDefaultLevel(env)
    /\ phase = "none"
    /\ opts = NoOpts
    /\ chalk_level = 0
    /\ last = Op("init", <<>>, Undefined, <<>>, <<>>, <<>>, <<>>)

(* checkWriteStream naming opts.stdout whatever it was given *)
checkWriteStream_SameName(arg, name) ==
    IF ~IsWriteableStream(arg) THEN <<"ArgumentError", "opts.stdout">> ELSE <<>>

(* checkWriteStream that accepts everything *)
checkWriteStream_Never(arg, name) == <<>>

(* checkWriteStream (lines 320-324): the ArgumentError it raises, or <<>>. *)
checkWriteStream(arg, name) ==
    IF ~IsWriteableStream(arg) THEN <<"ArgumentError", name>> ELSE <<>>

(***************************************************************************)
(* Logger.constructor (lines 215-243).  o is the configuration after the   *)
(* merge of line 216; colors is its colors option.  The model follows one  *)
(* instance: new Logger is called until it returns one.                    *)
(***************************************************************************)
Construct(o, colors) ==
    /\ phase # "ready"
    /\ LET e1 == checkWriteStream(o.stdout, "opts.stdout")
           e2 == checkWriteStream(o.stderr, "opts.stderr")
       IN  IF e1 # <<>>
           THEN /\ phase' = "failed"
                /\ opts' = NoOpts
                /\ chalk_level' = 0
                /\ last' = Op("new", <<o.stdout, o.stderr>>, o.logLevel, <<>>, <<>>, e1,
                              <<"merge", "check opts.stdout">>)
           ELSE IF e2 # <<>>
           THEN /\ phase' = "failed"
                /\ opts' = NoOpts
                /\ chalk_level' = 0
                /\ last' = Op("new", <<o.stdout, o.stderr>>, o.logLevel, <<>>, <<>>, e2,
                              <<"merge", "check opts.stdout", "check opts.stderr">>)
           ELSE /\ phase' = "ready"
                /\ opts' = o
                /\ chalk_level' = IF colors THEN DefaultColor ELSE 0
                /\ last' = Op("new", <<o.stdout, o.stderr>>, o.logLevel, <<>>, <<>>, <<>>,
                              <<"merge", "check opts.stdout", "check opts.stderr",
                                "Chalk", "HashProxy", "define opts", "define this">>)
    /\ UNCHANGED <<env, Defaults_logLevel>>

(* set stdout (lines 269-271) *)
SetStdout(st) ==
    /\ phase = "ready"
    /\ opts' = [opts EXCEPT !.stdout = st]
    /\ last' = Op("set_stdout", <<st>>, Undefined, <<>>, <<>>, <<>>, <<>>)
    /\ UNCHANGED <<env, Defaults_logLevel, phase, chalk_level>>

(* set stderr (lines 277-279) *)
SetStderr(st) ==
    /\ phase = "ready"
    /\ opts' = [opts EXCEPT !.stderr = st]
    /\ last' = Op("set_stderr", <<st>>, Undefined, <<>>, <<>>, <<>>, <<>>)
    /\ UNCHANGED <<env, Defaults_logLevel, phase, chalk_level>>

(* set logLevel (lines 285-287) *)
SetLogLevel(v) ==
    /\ phase = "ready"
    /\ opts' = [opts EXCEPT !.logLevel = v]
    /\ last' = Op("set_logLevel", <<>>, v, <<>>, <<>>, <<>>, <<>>)
    /\ UNCHANGED <<env, Defaults_logLevel, phase, chalk_level>>

(* get logLevel (lines 281-283): last.value is what the getter returns *)
GetLogLevel ==
    /\ phase = "ready"
    /\ last' = Op("get_logLevel", <<>>, logLevelGet(opts, Defaults_logLevel),
                  <<>>, <<>>, <<>>, <<>>)
    /\ UNCHANGED <<env, Defaults_logLevel, phase, opts, chalk_level>>

(* opts.colors setter (line 231) *)
SetColors(b) ==
    /\ phase = "ready"
    /\ chalk_level' = IF b THEN DefaultColor ELSE 0
    /\ last' = Op("set_colors", <<>>, Undefined, <<>>, <<>>, <<>>, <<>>)
    /\ UNCHANGED <<env, Defaults_logLevel, phase, opts>>

(* A level method (lines 239-241): log bound to the level name. *)
LevelMethod(name, args) ==
    /\ phase = "ready"
    /\ LET r == log(opts, Defaults_logLevel, name, args)
       IN  last' = Op("level", <<>>, Str(name), args, r.writes, r.raised, r.steps)
    /\ UNCHANGED <<env, Defaults_logLevel, phase, opts, chalk_level>>

Call_print(args) ==
    /\ phase = "ready"
    /\ LET r == print(opts, "write", args)
       IN  last' = Op("print", <<>>, Undefined, args, r.writes, r.raised, r.steps)
    /\ UNCHANGED <<env, Defaults_logLevel, phase, opts, chalk_level>>

Call_eprint(args) ==
    /\ phase = "ready"
    /\ LET r == print(opts, "ewrite", args)
       IN  last' = Op("eprint", <<>>, Undefined, args, r.writes, r.raised, r.steps)
    /\ UNCHANGED <<env, Defaults_logLevel, phase, opts, chalk_level>>

(***************************************************************************)
(* The next-state relation over given inputs: SV stream values, LV level   *)
(* values, PV prefix providers, CV colors values, LN level methods, AL the *)
(* argument lists of the level methods, PL those of print and eprint.      *)
(***************************************************************************)
NextOver(SV, LV, PV, CV, LN, AL, PL) ==
    \/ /\ phase # "ready"
       /\ \E so \in SV, se \in SV, lv \in LV, pv \in PV, c \in CV :
             Construct([stdout |-> so, stderr |-> se, logLevel |-> lv, prefix |-> pv], c)
    \/ \E st \in SV : SetStdout(st)
    \/ \E st \in SV : SetStderr(st)
    \/ \E v \in LV : SetLogLevel(v)
    \/ GetLogLevel
    \/ \E b \in CV : SetColors(b)
    \/ \E nm \in LN, args \in AL : LevelMethod(nm, args)
    \/ \E args \in PL : Call_print(args)
    \/ \E args \in PL : Call_eprint(args)

ListsOver(S) == UNION {[1..n -> S] : n \in 0..MaxArgs}

Unset == [DEBUG |-> Undefined, LOG_LEVEL |-> Undefined, LOGLEVEL |-> Undefined]

LevelMethods == DOMAIN LevelNums

(***************************************************************************)
(* Spec: the gate and the streams.  Every stream value, every level        *)
(* method, the thresholds -1..4 and two strings, lists of plain strings.   *)
(***************************************************************************)
StreamValues == {Defaults_stdout, Defaults_stderr, "duck", "nul"}

Thresholds ==
    {Num(i) : i \in -1..4} \cup {Str(<<"W", "A", "R", "N">>), Str(<<"n", "o", "p", "e">>)}

Next ==
    NextOver(StreamValues, Thresholds, {"default"}, BOOLEAN, LevelMethods,
             ListsOver({SomeString}), ListsOver({SomeString}))

Spec == Init({Unset}) /\ [][Next]_vars

(***************************************************************************)
(* SpecRender: what an admitted call writes.  Every prefix provider, two   *)
(* level methods (one per stream), argument lists of strings and errors.   *)
(***************************************************************************)
NextRender ==
    NextOver({"out", "err"}, {Num(1), Num(3)}, {"default", "list_empty", "str_empty"},
             {TRUE}, {S_warn, S_info},
             ListsOver({EmptyString, SomeString, AnError}), {<<>>, <<SomeString>>})

SpecRender == Init({Unset}) /\ [][NextRender]_vars

(***************************************************************************)
(* SpecPrelog: the default prelog.  Argument lists of strings, errors,     *)
(* {throwing: true} / {throwing: false} fragments and errors that carry a  *)
(* throwing property themselves.                                           *)
(***************************************************************************)
NextPrelog ==
    NextOver({"out", "err"}, {Num(1), Num(3)}, {"default"}, {TRUE}, {S_warn, S_info},
             ListsOver({SomeString, AnError, ThrowingTrue, ThrowingFalse, ThrowingError}),
             {<<>>, <<SomeString>>})

SpecPrelog == Init({Unset}) /\ [][NextPrelog]_vars

(***************************************************************************)
(* SpecLevels: level resolution.  Environments that set DEBUG, LOG_LEVEL   *)
(* and LOGLEVEL, and level values of every shape getLevelNumber tells      *)
(* apart: numbers inside and outside 0..4, negative and fractional ones,   *)
(* -0 and NaN, names in several letter cases, numeric strings, strings     *)
(* that name nothing, and strings that name inherited properties.          *)
(***************************************************************************)
NameSpellings ==
    { S_error, S_warn, S_info, S_log, S_debug,
      <<"E", "R", "R", "O", "R">>, <<"W", "a", "r", "n">>, <<"i", "N", "f", "O">>,
      <<"L", "O", "G">>, <<"D", "e", "b", "u", "g">> }

OtherStrings ==
    { <<>>, <<"5">>, <<"0", "3">>, <<"-", "1">>, <<"v", "e", "r", "b", "o", "s", "e">>,
      S_length, <<"m", "a", "p">>,
      <<"c", "o", "n", "s", "t", "r", "u", "c", "t", "o", "r">>,
      <<"t", "o", "S", "t", "r", "i", "n", "g">> }

LevelValues ==
    {Num(i) : i \in (0 - MaxNeg)..(4 + MaxOver)}
    \cup {Frac(-1), Frac(2), NegZero, NaN}
    \cup {Str(t) : t \in NameSpellings \cup OtherStrings}
    \cup {Str(NatToChars(i)) : i \in 0..4}

LevelEnvs ==
    { [DEBUG |-> d, LOG_LEVEL |-> a, LOGLEVEL |-> b] :
        d \in {Undefined, Str(<<"0">>)},
        a \in {Undefined, Str(<<>>), Str(<<"W", "A", "R", "N">>),
               Str(<<"v", "e", "r", "b", "o", "s", "e">>), Str(S_length)},
        b \in {Undefined, Str(<<"3">>)} }

NextLevels ==
    NextOver({"out"}, LevelValues, {"default"}, {TRUE}, {S_error, S_debug},
             ListsOver({}), ListsOver({}))

SpecLevels == Init(LevelEnvs) /\ [][NextLevels]_vars

(***************************************************************************)
(* Definitions the properties are stated with.                             *)
(***************************************************************************)
ThresholdValues == {Num(i) : i \in -1..4}

(* the ordinal the specification gives to the level method of last *)
OrdinalOf(nm) ==
    CASE nm = S_error -> 0 [] nm = S_warn -> 1 [] nm = S_info -> 2
      [] nm = S_log -> 3 [] nm = S_debug -> 4

(* both configured streams take writes *)
SinksTakeWrites == HasWrite(opts.stdout) /\ HasWrite(opts.stderr)

(* last is a level call that the threshold, a number of -1..4, admits *)
AdmittedLevelCall ==
    /\ phase = "ready"
    /\ last.op = "level"
    /\ opts.logLevel \in ThresholdValues
    /\ OrdinalOf(last.value.s) <= opts.logLevel.n

RECURSIVE Concat(_)
Concat(ws) == IF ws = <<>> THEN <<>> ELSE ws[1].data \o Concat(Tail(ws))

(***************************************************************************)
(* C1: with the threshold T last set (at construction or through logLevel) *)
(* to a number of -1..4, a call of the level method L writes to a stream   *)
(* if and only if ordinal(L) <= T, and with T = -1 no level call writes    *)
(* anything.  (The configured streams are sinks that take the write.)      *)
(***************************************************************************)
C1_WritesIffAdmitted ==
    (phase = "ready" /\ last.op = "level" /\ opts.logLevel \in ThresholdValues
        /\ SinksTakeWrites)
    => /\ (last.writes # <<>>) <=> (OrdinalOf(last.value.s) <= opts.logLevel.n)
       /\ opts.logLevel.n = -1 => last.writes = <<>>
       /\ last.raised = <<>>

C1_Witness ==
    /\ phase = "ready" /\ last.op = "level"
    /\ opts.logLevel = Num(1) /\ last.value = Str(S_warn)
    /\ last.writes # <<>>

(***************************************************************************)
(* C2: every write of an admitted error or warn call goes to the stream    *)
(* now configured as stderr and none to stdout; every write of an admitted *)
(* info, log or debug call goes to the stream now configured as stdout and *)
(* none to stderr.                                                         *)
(***************************************************************************)
C2_Destination ==
    (phase = "ready" /\ last.op = "level")
    => \A i \in DOMAIN last.writes :
          IF OrdinalOf(last.value.s) <= 1
          THEN last.writes[i].slot = "stderr" /\ last.writes[i].to = opts.stderr
          ELSE last.writes[i].slot = "stdout" /\ last.writes[i].to = opts.stdout

C2_Witness ==
    /\ phase = "ready" /\ last.op = "level" /\ last.value = Str(S_warn)
    /\ opts.stdout = "out" /\ opts.stderr = "duck"
    /\ last.writes # <<>> /\ last.writes[1].to = "duck"

(***************************************************************************)
(* C5: print and eprint are not gated: whatever the threshold, -1          *)
(* included, a print call issues exactly one write, to stdout, and an      *)
(* eprint call exactly one, to stderr; the text is the formatted arguments *)
(* followed by one newline, and neither prelog nor prefix is invoked.      *)
(* (The stream written to is a sink that takes the write.)                 *)
(***************************************************************************)
C5_PrintUngated ==
    (phase = "ready" /\ last.op \in {"print", "eprint"}
        /\ HasWrite(IF last.op = "print" THEN opts.stdout ELSE opts.stderr))
    => /\ Len(last.writes) = 1
       /\ last.writes[1].slot = (IF last.op = "print" THEN "stdout" ELSE "stderr")
       /\ last.writes[1].to = (IF last.op = "print" THEN opts.stdout ELSE opts.stderr)
       /\ last.writes[1].data = Defaults_format(last.args) \o <<"\n">>
       /\ \A i \in DOMAIN last.steps : last.steps[i] \notin {"prelog", "prefix"}

C5_Witness ==
    /\ phase = "ready" /\ last.op = "print" /\ opts.logLevel = Num(-1)
    /\ last.args = <<SomeString>>
    /\ last.writes = <<[slot |-> "stdout", to |-> opts.stdout, data |-> <<"s", "\n">>]>>

(***************************************************************************)
(* C7: new Logger with a non-writable stdout or stderr raises an           *)
(* ArgumentError naming opts.stdout or opts.stderr, stdout first, before   *)
(* the color engine, the style resolver or the level methods are created   *)
(* and with nothing written; with two writable streams it does not raise.  *)
(***************************************************************************)
C7_ConstructorValidates ==
    last.op = "new"
    => LET so == last.streams[1]
           se == last.streams[2]
           bad == IF ~IsWriteableStream(so) THEN "opts.stdout"
                  ELSE IF ~IsWriteableStream(se) THEN "opts.stderr" ELSE ""
       IN  IF bad # ""
           THEN /\ phase = "failed"
                /\ last.raised = <<"ArgumentError", bad>>
                /\ \A i \in DOMAIN last.steps :
                      last.steps[i] \notin {"Chalk", "HashProxy", "define opts", "define this"}
                /\ last.writes = <<>>
                /\ opts = NoOpts
           ELSE /\ phase = "ready"
                /\ last.raised = <<>>
                /\ opts.stdout = so /\ opts.stderr = se

C7_Witness ==
    /\ phase = "failed" /\ last.op = "new"
    /\ last.streams = <<"out", "nul">>
    /\ last.raised = <<"ArgumentError", "opts.stderr">>

(***************************************************************************)
(* C9 as claimed: in every state after a successful construction, whatever *)
(* was assigned through the accessors, both configured streams are         *)
(* writable sinks.                                                         *)
(***************************************************************************)
C9_StreamsAlwaysWritable ==
    phase = "ready" => IsWriteableStream(opts.stdout) /\ IsWriteableStream(opts.stderr)

(***************************************************************************)
(* C9 amended: a successful construction leaves both configured streams    *)
(* writable sinks, and every step other than an assignment of a            *)
(* non-writable value to stdout or stderr keeps them so.                   *)
(***************************************************************************)
C9_WritableUnlessAssigned ==
    [][/\ (phase' = "ready" /\ last'.op = "new")
            => IsWriteableStream(opts'.stdout) /\ IsWriteableStream(opts'.stderr)
       /\ (/\ phase = "ready"
           /\ IsWriteableStream(opts.stdout) /\ IsWriteableStream(opts.stderr)
           /\ ~(last'.op \in {"set_stdout", "set_stderr"}
                /\ ~IsWriteableStream(last'.streams[1])))
            => IsWriteableStream(opts'.stdout) /\ IsWriteableStream(opts'.stderr)]_vars

C9_Witness ==
    /\ phase = "ready" /\ last.op = "set_stdout" /\ last.streams = <<"err">>
    /\ opts.stdout = "err" /\ IsWriteableStream(opts.stderr)

(***************************************************************************)
(* C6: the writes of an admitted level call, in order, all go to the one   *)
(* stream chosen for its level and concatenate to the rendered prefix, a   *)
(* single space if and only if the rendered prefix and the rendered body   *)
(* are both non-empty, the rendered body and one newline; a prefix write   *)
(* comes before the body write; an empty prefix list or a prefix that      *)
(* renders empty writes neither prefix nor separator.  (The stream is a    *)
(* sink that takes the writes.)                                            *)
(***************************************************************************)
C6_PrefixSeparatorBody ==
    (AdmittedLevelCall /\ SinksTakeWrites)
    => LET nm == last.value.s
           pl == Prefixes(opts.prefix, nm)
           P == IF pl = <<>> THEN <<>> ELSE Defaults_format(pl)
           al == Defaults_prelog(nm, last.args)
           B == IF al = <<>> THEN <<>> ELSE Defaults_format(al)
           sep == IF P # <<>> /\ B # <<>> THEN <<" ">> ELSE <<>>
           n == Len(last.writes)
       IN  /\ \A i \in 1..n :
                last.writes[i].slot = (IF OrdinalOf(nm) <= 1 THEN "stderr" ELSE "stdout")
           /\ Concat(last.writes) = P \o sep \o B \o <<"\n">>
           /\ IF P = <<>>
              THEN n = 1
              ELSE /\ n = 2
                   /\ SubSeq(last.writes[1].data, 1, Len(P)) = P
                   /\ last.writes[2].data = B \o <<"\n">>

C6_Witness ==
    /\ AdmittedLevelCall
    /\ opts.prefix = "default"
    /\ last.value = Str(S_warn)
    /\ last.args = <<EmptyString>>
    /\ Len(last.writes) = 2
    /\ last.writes[2].data = <<"\n">>

(***************************************************************************)
(* C8: with the default prelog, an error argument of an admitted level     *)
(* call is rendered without the stack-trace line if and only if some       *)
(* argument of the call, before or after the error, carries a truthy       *)
(* throwing marker; when none does, the error is rendered as the           *)
(* name: message line followed by the stack-trace line.                    *)
(***************************************************************************)
ErrorWithStack ==
    <<"name(", "Error", ")", ": ", "message(", "boom", ")", "\n", "stack(", "at", ")">>

C8_StackIffNoThrowing ==
    (AdmittedLevelCall /\ SinksTakeWrites
        /\ \E i \in DOMAIN last.args : last.args[i].kind = "error")
    => LET body == last.writes[Len(last.writes)].data
           marker == \E j \in DOMAIN last.args :
                        /\ last.args[j].kind \in {"throwing", "error"}
                        /\ last.args[j].txt = <<"true">>
           hasStack == \E k \in DOMAIN body : body[k] = "stack("
           hasFirst == \E k \in DOMAIN body : body[k] = "name("
       IN  /\ hasFirst
           /\ ~hasStack <=> marker
           /\ ~marker => \E k \in DOMAIN body :
                             /\ k + Len(ErrorWithStack) - 1 <= Len(body)
                             /\ SubSeq(body, k, k + Len(ErrorWithStack) - 1) = ErrorWithStack

C8_Witness ==
    /\ AdmittedLevelCall
    /\ last.args = <<AnError, ThrowingTrue>>
    /\ last.writes # <<>>
    /\ \A k \in DOMAIN last.writes[Len(last.writes)].data :
          last.writes[Len(last.writes)].data[k] # "stack("

(***************************************************************************)
(* Shapes of level values, stated without the code's resolution.           *)
(***************************************************************************)
(* t spells the level name nm in some letter case *)
SpellsName(t, nm) ==
    /\ Len(t) = Len(nm)
    /\ \A i \in DOMAIN nm :
          \/ t[i] = nm[i]
          \/ \E j \in DOMAIN LowerChars : LowerChars[j] = nm[i] /\ UpperChars[j] = t[i]

IsNameSpelling(v) ==
    v.k = "str" /\ \E nm \in {S_error, S_warn, S_info, S_log, S_debug} : SpellsName(v.s, nm)

(* the ordinal i as a number or as its decimal numeral *)
IsOrdinalValue(v, i) ==
    \/ v = Num(i)
    \/ v.k = "str" /\ v.s = <<DigitChars[i + 1]>>

IsNegativeNumber(v) == v.k \in {"num", "frac"} /\ v.n < 0

(* a string or number that is no level name, no ordinal and not negative;
   -0 counts as the ordinal 0 and the numeral "-1" as negative *)
Unrecognised(v) ==
    /\ v.k \in {"str", "num", "frac", "nan"}
    /\ ~IsNameSpelling(v)
    /\ ~\E i \in 0..4 : IsOrdinalValue(v, i)
    /\ ~IsNegativeNumber(v)
    /\ ~(v.k = "str" /\ v.s # <<>> /\ v.s[1] = "-")

(***************************************************************************)
(* C3 as claimed: resolving a string or number that is no level name, no   *)
(* ordinal 0..4 and not negative returns exactly the process-wide default. *)
(***************************************************************************)
C3_UnrecognisedGivesDefault ==
    (phase = "ready" /\ last.op = "get_logLevel" /\ Unrecognised(opts.logLevel))
    => last.value = Defaults_logLevel

(***************************************************************************)
(* C4: level resolution, which the logLevel getter applies to the value    *)
(* last assigned, maps a level name in any letter case to its ordinal, an  *)
(* ordinal 0..4 given as a number or as its numeral to that number, and a  *)
(* negative number to -1; so a name reads back as its ordinal does.        *)
(***************************************************************************)
C4_ResolvesNamesAndOrdinals ==
    (phase = "ready" /\ last.op = "get_logLevel")
    => /\ \A nm \in {S_error, S_warn, S_info, S_log, S_debug} :
             (opts.logLevel.k = "str" /\ SpellsName(opts.logLevel.s, nm))
             => last.value = Num(OrdinalOf(nm))
       /\ \A i \in 0..4 : IsOrdinalValue(opts.logLevel, i) => last.value = Num(i)
       /\ IsNegativeNumber(opts.logLevel) => last.value = Num(-1)

C4_Witness ==
    /\ phase = "ready" /\ last.op = "get_logLevel"
    /\ opts.logLevel = Str(<<"i", "N", "f", "O">>)
    /\ last.value = Num(2)
    /\ Defaults_logLevel # Num(2)

(***************************************************************************)
(* C10 as claimed: whatever DEBUG, LOG_LEVEL and LOGLEVEL held and         *)
(* whatever was assigned to logLevel, the logLevel getter returns an       *)
(* integer of -1..4 (-0 counting as 0).                                    *)
(***************************************************************************)
C10_ThresholdInRange ==
    (phase = "ready" /\ last.op = "get_logLevel")
    => last.value \in ThresholdValues \cup {NegZero}

====
